---- MODULE Spec2Model ----
(***************************************************************************)
(* Model of the acceleratorinator: the run-length codec shared by the host *)
(* library (acceleratorinator/src/lib.rs) and the firmware                 *)
(* (firmware/src/main.rs), the firmware's listen loop with its pixel       *)
(* transform, and the host's status mapping.                               *)
(***************************************************************************)
EXTENDS Integers, Sequences, FiniteSets, TLC

VARIABLES
    mode,       \* which entry point drives the state: "codec", "decode", "header", "status", "transform", "device", "conn", "host", "fwcodec"
    pc,         \* position of the running operation
    x,          \* codec: the byte sequence given to cring_rle_encode
    encoded,    \* codec: outcome of cring_rle_encode / the stream given to cring_rle_decode
    decoded,    \* codec: outcome of cring_rle_decode
    len,        \* header: the len argument of cring_rle_calc_header
    block_size, \* header: the block_size argument of cring_rle_calc_header
    header,     \* header: outcome of cring_rle_calc_header
    error,      \* listen::error, the status being reported
    wire,       \* status: the status byte on the device-to-host endpoint
    mapped,     \* status: outcome of err::cring_map_from_device_error
    encoded_bmp_buffer, \* ENCODED_BMP_BUFFER
    decoded_bmp_buffer, \* DECODED_BMP_BUFFER
    GLITCHY,    \* the fault indicator
    bmp,        \* outcome of tinybmp::RawBmp::from_slice for the current transfer
    decoded_in, \* the decoded buffer as it was before the pixel transform
    reencoded,  \* the encoded buffer as it was when the reply started
    reply,      \* packets written to the device-to-host endpoint for the current transfer
    nerr,       \* endpoint errors since the buffers were last cleared
    outbox,     \* packets of the host's current message not yet on the wire
    panic_msg,  \* the message of the panic that stopped the firmware, "" while it runs
    usb,        \* host: the caller's handle slot and the CringUsbConnection it points to
    dropped,    \* host: the connections released by cring_usb_free, in order
    last,       \* host: the most recent call on the handle slot with its result
    bmp_data,   \* host: the caller's image buffer given to cring_acc_send_bmp
    calls,      \* host: the transport calls cring_acc_send_bmp has made, with their results
    ret,        \* host: the value cring_acc_send_bmp returned
    received,   \* device: the non-empty chunks read for the current message, concatenated
    handed,     \* device: the encoded buffer as it was given to cring_rle_decode
    locks       \* device: the buffer locks the protocol task holds, in the order taken

codecVars == <<x, encoded, decoded>>
headerVars == <<len, block_size, header>>
statusVars == <<wire, mapped>>
deviceVars == <<encoded_bmp_buffer, decoded_bmp_buffer, GLITCHY, bmp, decoded_in,
                reencoded, reply, nerr, outbox, panic_msg>>

hostVars == <<usb, dropped, last, bmp_data, calls, ret>>

sessionVars == <<received, handed, locks>>

vars == <<mode, pc, codecVars, headerVars, error, statusVars, deviceVars, hostVars,
          sessionVars>>

-----------------------------------------------------------------------------
(* Bounds of the model *)

\* longest input enumerated exhaustively over ShortBytes
MaxLen == 6
\* longest run (in units) of the run-structured inputs
MaxRun == 257
\* longest raw stream handed directly to cring_rle_decode
MaxStream == 4
\* longest buffer handed directly to the pixel transform
MaxPixelBytes == 5
\* endpoint errors between two clearings of the buffers
MaxErrors == 1
\* capacity of the two working buffers, scaled down from 100 * 1024 to four packets
BUFFER_SIZE == 256

MAX_PACKET_SIZE == 64

-----------------------------------------------------------------------------
(* Machine arithmetic *)

AsU8(n) == n % 256

\* 1 << n for n below 16
Pow2Table == <<1, 2, 4, 8, 16, 32, 64, 128, 256, 512, 1024, 2048, 4096, 8192, 16384,
               32768>>

Pow2(n) == Pow2Table[n + 1]

RECURSIVE BitOr(_, _)
BitOr(a, b) ==
    IF a = 0 THEN b
    ELSE IF b = 0 THEN a
    ELSE (IF a % 2 = 1 \/ b % 2 = 1 THEN 1 ELSE 0) + 2 * BitOr(a \div 2, b \div 2)

RECURSIVE BitAnd(_, _)
BitAnd(a, b) ==
    IF a = 0 \/ b = 0 THEN 0
    ELSE (IF a % 2 = 1 /\ b % 2 = 1 THEN 1 ELSE 0) + 2 * BitAnd(a \div 2, b \div 2)

\* u8 << n: the bits shifted out of the byte are dropped
Shl8(v, n) == (v * Pow2(n)) % 256

Shr(v, n) == v \div Pow2(n)

Min(a, b) == IF a <= b THEN a ELSE b

Drop(s, n) == SubSeq(s, n + 1, Len(s))

Take(s, n) == SubSeq(s, 1, n)

-----------------------------------------------------------------------------
(* Outcomes of a call: a value, or a panic that unwinds out of the call *)

Returned(v) == [panic |-> "none", out |-> v]

Panicked(why) == [panic |-> why, out |-> <<>>]

NotRun == [panic |-> "notrun", out |-> <<>>]

-----------------------------------------------------------------------------
(* The codec: lib.rs 206-337, identical in firmware main.rs 423-553 *)

U16_MAX == 65535

\* mutant: the count is stored without the -1 bias
cring_rle_calc_header_no_bias(l, bs) ==
    IF l = 0 THEN Panicked("Must encode at least 1 byte")
    ELSE IF ~(bs < 4) THEN Panicked("Block size must be less than 4")
    ELSE Returned(BitOr(Shl8(l, 2), bs))

\* header = ((len - 1) << 2) | block_size, after the two assertions
cring_rle_calc_header(l, bs) ==
    IF l = 0 THEN Panicked("Must encode at least 1 byte")
    ELSE IF ~(bs < 4) THEN Panicked("Block size must be less than 4")
    ELSE Returned(BitOr(Shl8(l - 1, 2), bs))

\* mutant: the count is read back without the +1 bias
cring_rle_get_header_len_no_bias(h) == Shr(BitAnd(h, 252), 2)

cring_rle_get_header_len(h) == Shr(BitAnd(h, 252), 2) + 1

cring_rle_get_header_block_size(h) == BitAnd(h, 3)

\* chunks_exact(block_size).take_while(|chunk| chunk == repeat_value).count():
\* the index of the first whole chunk that differs from the first one
CountLeadingChunks(input, bs) ==
    LET n == Len(input) \div bs
        differs == {k \in 0..(n - 1) : \E i \in 1..bs : input[k * bs + i] # input[i]}
    IN  IF differs = {} THEN n
        ELSE CHOOSE k \in differs : \A j \in differs : k <= j

\* None is modelled as -1
cring_rle_calc_max_block_repeats(input, bs) ==
    IF Len(input) < bs THEN -1
    ELSE CountLeadingChunks(input, bs)

\* mutant: the fraction is taken the other way round
cring_rle_calc_block_savings_frac_inverted(output_size, input_size) ==
    (1000 * input_size) \div output_size

\* 1000u16 * output_size / input_size; a zero divisor panics (modelled as -1)
cring_rle_calc_block_savings_frac(output_size, input_size) ==
    IF input_size = 0 THEN -1
    ELSE (1000 * output_size) \div input_size

\* the four entries of possible_block_savings, index 0..3
PossibleBlockSavings(input) ==
    LET max_len == Min(Len(input), 32)
    IN  [bs \in 0..3 |->
            IF bs = 0
            THEN cring_rle_calc_block_savings_frac(AsU8(max_len + 1), AsU8(max_len))
            ELSE LET r == cring_rle_calc_max_block_repeats(input, bs)
                 IN  IF r = -1 THEN U16_MAX
                     ELSE cring_rle_calc_block_savings_frac(AsU8(bs + 1), AsU8(bs * r))]

\* mutant: the last index holding the minimum
BestBlockSize_last_minimum(savings) ==
    CHOOSE i \in 0..3 :
        /\ \A j \in 0..3 : savings[i] <= savings[j]
        /\ \A j \in 0..3 : j > i => savings[j] > savings[i]

\* enumerate().min_by_key(|(_, val)| **val): the first index holding the minimum
BestBlockSize(savings) ==
    CHOOSE i \in 0..3 :
        /\ \A j \in 0..3 : savings[i] <= savings[j]
        /\ \A j \in 0..3 : j < i => savings[j] > savings[i]

\* mutant: a literal block takes up to 64 bytes
EncodeBlock_literal_cap_64(input) ==
    LET max_len == Min(Len(input), 64)
        savings == PossibleBlockSavings(input)
    IN  IF \E bs \in 0..3 : savings[bs] = -1
        THEN [panic |-> "attempt to divide by zero", block |-> <<>>, consumed |-> 0]
        ELSE LET best == BestBlockSize(savings)
             IN  IF best = 0
                 THEN LET h == cring_rle_calc_header(AsU8(max_len), 0)
                      IN  [panic |-> h.panic,
                           block |-> IF h.panic = "none"
                                     THEN <<h.out>> \o Take(input, max_len) ELSE <<>>,
                           consumed |-> max_len]
                 ELSE LET repeats == cring_rle_calc_max_block_repeats(input, best)
                          h == cring_rle_calc_header(AsU8(repeats), AsU8(best))
                      IN  [panic |-> h.panic,
                           block |-> IF h.panic = "none"
                                     THEN <<h.out>> \o Take(input, best) ELSE <<>>,
                           consumed |-> repeats * best]

\* one iteration of the while loop: the emitted block and the bytes consumed
EncodeBlock(input) ==
    LET max_len == Min(Len(input), 32)
        savings == PossibleBlockSavings(input)
    IN  IF \E bs \in 0..3 : savings[bs] = -1
        THEN [panic |-> "attempt to divide by zero", block |-> <<>>, consumed |-> 0]
        ELSE LET best == BestBlockSize(savings)
             IN  IF best = 0
                 THEN LET h == cring_rle_calc_header(AsU8(max_len), 0)
                      IN  [panic |-> h.panic,
                           block |-> IF h.panic = "none"
                                     THEN <<h.out>> \o Take(input, max_len) ELSE <<>>,
                           consumed |-> max_len]
                 ELSE LET repeats == cring_rle_calc_max_block_repeats(input, best)
                          h == cring_rle_calc_header(AsU8(repeats), AsU8(best))
                      IN  [panic |-> h.panic,
                           block |-> IF h.panic = "none"
                                     THEN <<h.out>> \o Take(input, best) ELSE <<>>,
                           consumed |-> repeats * best]

\* cring_rle_push_on_vec for each byte of bytes: std Vec::push grows the vector
\* (cap = -1); heapless Vec::push(..).ok() drops the byte when the vector is full
PushAll(vec, bytes, cap) ==
    IF cap < 0 THEN vec \o bytes
    ELSE Take(vec \o bytes, IF Len(vec) >= cap THEN Len(vec)
                             ELSE Min(cap, Len(vec) + Len(bytes)))

RECURSIVE EncodeLoop(_, _, _)
EncodeLoop(input, output, cap) ==
    IF input = <<>> THEN Returned(output)
    ELSE LET b == EncodeBlock(input)
         IN  IF b.panic # "none" THEN Panicked(b.panic)
             ELSE EncodeLoop(Drop(input, b.consumed), PushAll(output, b.block, cap), cap)

\* the host's encoder: output is a fresh std Vec
cring_rle_encode(input) == EncodeLoop(input, <<>>, -1)

\* &input[1..][..n]: panics when fewer than n bytes follow the header
PayloadInRange(input, n) == Len(input) - 1 >= n

\* unit emitted n times
Repeat(unit, n) == [i \in 1..(n * Len(unit)) |-> unit[((i - 1) % Len(unit)) + 1]]

RECURSIVE DecodeLoop(_, _, _)
DecodeLoop(input, output, cap) ==
    IF input = <<>> THEN Returned(output)
    ELSE LET h == input[1]
             bs == cring_rle_get_header_block_size(h)
             repeats == cring_rle_get_header_len(h)
         IN  IF bs = 0
             THEN IF ~PayloadInRange(input, repeats)
                  THEN Panicked("range end index out of range for slice")
                  ELSE DecodeLoop(Drop(input, repeats + 1),
                                  PushAll(output, SubSeq(input, 2, repeats + 1), cap), cap)
             ELSE IF ~PayloadInRange(input, bs)
                  THEN Panicked("range end index out of range for slice")
                  ELSE DecodeLoop(Drop(input, bs + 1),
                                  PushAll(output, Repeat(SubSeq(input, 2, bs + 1), repeats),
                                          cap), cap)

\* mutant: a block that overruns the stream ends the decoding silently
cring_rle_decode_swallows_overrun(input) ==
    LET r == DecodeLoop(input, <<>>, -1)
    IN  IF r.panic = "none" THEN r ELSE Returned(<<>>)

\* the host's decoder: output is a fresh std Vec
cring_rle_decode(input) == DecodeLoop(input, <<>>, -1)

-----------------------------------------------------------------------------
(* The pixel transform: firmware main.rs 198-283 *)

\* view_bits_mut::<Lsb0>(): bit i of the view is bit i % 8 of byte i / 8
Bits(bytes) ==
    [i \in 1..(8 * Len(bytes)) |-> (bytes[((i - 1) \div 8) + 1] \div Pow2((i - 1) % 8)) % 2]

\* load_le of at most 8 bits: the first bit is the least significant
RECURSIVE LoadLeFrom(_, _)
LoadLeFrom(bits, i) == IF i > Len(bits) THEN 0 ELSE bits[i] + 2 * LoadLeFrom(bits, i + 1)

LoadLe(bits) == LoadLeFrom(bits, 1)

\* store_le into w bits: the bits of value above w are dropped
StoreLe(w, value) == SubSeq([j \in 1..w |-> (value \div Pow2(j - 1)) % 2], 1, w)

\* u32::trailing_zeros
RECURSIVE trailing_zeros(_)
trailing_zeros(m) ==
    IF m = 0 THEN 32 ELSE IF m % 2 = 1 THEN 0 ELSE 1 + trailing_zeros(m \div 2)

\* 32 - u32::leading_zeros
RECURSIVE BitLength(_)
BitLength(m) == IF m = 0 THEN 0 ELSE 1 + BitLength(m \div 2)

NoMasks == [present |-> FALSE]

ChannelMasks(r, g, b) == [present |-> TRUE, red |-> r, green |-> g, blue |-> b]

\* start..end of one channel
ChannelRange(mask) == [start |-> trailing_zeros(mask), end |-> BitLength(mask)]

\* color_ranges: Some((red_range, green_range, blue_range)) or None
ColorRanges(h) ==
    IF h.channel_masks.present
    THEN [present |-> TRUE,
          red |-> ChannelRange(h.channel_masks.red),
          green |-> ChannelRange(h.channel_masks.green),
          blue |-> ChannelRange(h.channel_masks.blue)]
    ELSE [present |-> FALSE]

\* let value = pixel[range].load_le::<u8>(); pixel[range].store_le(u8::MAX - value)
InvertChannel(pixel, rng) ==
    IF rng.start > rng.end \/ rng.end > Len(pixel)
    THEN Panicked("range out of bounds")
    ELSE LET w == rng.end - rng.start
         IN  IF w = 0 \/ w > 8
             THEN Panicked("cannot load bits into a u8")
             ELSE LET value == LoadLe(SubSeq(pixel, rng.start + 1, rng.end))
                      stored == StoreLe(w, 255 - value)
                  IN  Returned(SubSeq([i \in 1..Len(pixel) |->
                                          IF i > rng.start /\ i <= rng.end
                                          THEN stored[i - rng.start] ELSE pixel[i]],
                                      1, Len(pixel)))

\* the four bytes of pixel.load_le::<u32>(), least significant first
U32Digits(pixel) ==
    SubSeq([k \in 1..4 |->
               LoadLe([j \in 1..8 |-> IF 8 * (k - 1) + j <= Len(pixel)
                                      THEN pixel[8 * (k - 1) + j] ELSE 0])],
           1, 4)

\* pixel.store_le(u32::MAX - pixel.load_le::<u32>()): the subtraction never
\* borrows, each byte of the difference is 255 minus the byte of the value
InvertWord(pixel) ==
    IF Len(pixel) = 0 \/ Len(pixel) > 32
    THEN Panicked("cannot load bits into a u32")
    ELSE LET digits == U32Digits(pixel)
             difference == <<255 - digits[1], 255 - digits[2],
                             255 - digits[3], 255 - digits[4]>>
         IN  Returned(Take(Bits(difference), Len(pixel)))

\* the body of the pixel loop
InvertPixel(pixel, ranges) ==
    IF ranges.present
    THEN LET r == InvertChannel(pixel, ranges.red)
         IN  IF r.panic # "none" THEN r
             ELSE LET g == InvertChannel(r.out, ranges.green)
                  IN  IF g.panic # "none" THEN g
                      ELSE InvertChannel(g.out, ranges.blue)
    ELSE InvertWord(pixel)

\* image_data_len, as listen computes it, capped by what follows image_data_start
ImageDataLen(buf, h) ==
    Min(IF h.image_data_len = 0
        THEN (h.width * h.height * h.bpp) \div 8
        ELSE h.image_data_len,
        Len(buf) - h.image_data_start)

\* bit i (from 0) of the Lsb0 view over bytes
BitAt(bytes, i) == (bytes[(i \div 8) + 1] \div Pow2(i % 8)) % 2

\* chunk k (from 0) of image_bits_view.chunks_exact_mut(bpp)
PixelBits(region, k, bpp) ==
    SubSeq([j \in 1..bpp |-> BitAt(region, k * bpp + j - 1)], 1, bpp)

\* the pixel loop over image_bits_view.chunks_exact_mut(bpp); the bits after the
\* last whole pixel and the bytes outside the region are not written
InvertPixels(buf, h) ==
    LET n == ImageDataLen(buf, h)
        region == SubSeq(buf, h.image_data_start + 1, h.image_data_start + n)
        npix == (8 * n) \div h.bpp
        ranges == ColorRanges(h)
        inverted == SubSeq([k \in 1..npix |->
                               InvertPixel(PixelBits(region, k - 1, h.bpp), ranges)],
                           1, npix)
        newbit(i) == IF i < npix * h.bpp
                     THEN inverted[(i \div h.bpp) + 1].out[(i % h.bpp) + 1]
                     ELSE BitAt(region, i)
    IN  IF \E k \in 1..npix : inverted[k].panic # "none"
        THEN Panicked(inverted[1].panic)
        ELSE Returned(Take(buf, h.image_data_start)
                      \o SubSeq([j \in 1..n |->
                                    LoadLe([b \in 1..8 |-> newbit(8 * (j - 1) + b - 1)])],
                                1, n)
                      \o Drop(buf, h.image_data_start + n))

-----------------------------------------------------------------------------
(* Inputs of the codec harness *)

ShortBytes == {0, 1, 2}

RECURSIVE SeqsUpTo(_, _)
SeqsUpTo(S, n) ==
    IF n = 0 THEN {<<>>}
    ELSE LET shorter == SeqsUpTo(S, n - 1)
         IN  shorter \cup {Append(s, b) : s \in {t \in shorter : Len(t) = n - 1}, b \in S}

\* the inputs of tests::rle_encode_correct and tests::rle_round_trip
TestVectors ==
    {<<>>, <<0, 1, 2, 3, 4, 5, 6>>, <<0, 0, 2, 3, 4, 5, 6>>, <<0, 0, 2, 3, 4, 2, 3, 4>>}

\* run lengths around the multiples of 32 (literal cap, 6-bit count, u8 width)
RunCounts == {n \in 30..MaxRun : n % 32 \in {0, 1, 31}}

RunUnits == {<<0>>, <<0, 1>>, <<0, 1, 2>>}

RunInputs == {Repeat(u, n) \o t : u \in RunUnits, n \in RunCounts, t \in {<<>>, <<9>>}}

NoRepeat(n) == [i \in 1..n |-> i % 251]

Inputs == SeqsUpTo(ShortBytes, MaxLen) \cup TestVectors \cup RunInputs
          \cup {NoRepeat(n) : n \in {31, 32, 33, 64, 65}}

\* raw streams for cring_rle_decode: headers of every block kind, short and long counts
StreamBytes == {0, 1, 2, 3, 4, 5, 7, 9, 252}

\* a full 64-byte literal block, a 64-fold repeat block, and both cut short
LongStreams ==
    {<<252>> \o NoRepeat(64), <<252>> \o NoRepeat(63), <<253, 7>>, <<253>>,
     <<255, 1, 2, 3>>, <<255, 1, 2>>}

Streams == SeqsUpTo(StreamBytes, MaxStream) \cup LongStreams

-----------------------------------------------------------------------------
(* Codec harness: encode an input, then decode what the encoder returned *)

NoBmp == [kind |-> "none"]

\* a handle slot holding the null pointer
NullUsb == [ptr |-> 0, interface |-> "None"]

\* no call made on the handle slot yet
NoCall == [op |-> "none", null_arg |-> FALSE, before |-> NullUsb, ret |-> 0]

\* a caller's buffer: the null pointer, or bmp_len bytes
Buffer(bytes) == [null |-> FALSE, bytes |-> bytes]
NullBuffer == [null |-> TRUE, bytes |-> <<>>]

\* no buffer lock is held; carried says that the locks held now were already
\* held when an earlier transfer completed
NoLocks == [held |-> <<>>, carried |-> FALSE]

SessionIdle == received = <<>> /\ handed = <<>> /\ locks = NoLocks

HostIdle ==
    /\ usb = NullUsb /\ dropped = <<>> /\ last = NoCall
    /\ bmp_data = NullBuffer /\ calls = <<>> /\ ret = 0

DeviceIdle ==
    /\ HostIdle /\ SessionIdle
    /\ encoded_bmp_buffer = <<>> /\ decoded_bmp_buffer = <<>>
    /\ GLITCHY = FALSE /\ bmp = NoBmp /\ decoded_in = <<>>
    /\ reencoded = <<>> /\ reply = <<>> /\ nerr = 0 /\ outbox = <<>> /\ panic_msg = ""

CodecIdle ==
    /\ len = 0 /\ block_size = 0 /\ header = NotRun
    /\ error = "Ok" /\ wire = -1 /\ mapped = 0
    /\ DeviceIdle

InitCodec ==
    /\ mode = "codec" /\ pc = "start"
    /\ x \in Inputs
    /\ encoded = NotRun /\ decoded = NotRun
    /\ CodecIdle

Encode ==
    /\ mode = "codec" /\ pc = "start"
    /\ encoded' = cring_rle_encode(x)
    /\ pc' = "encoded"
    /\ UNCHANGED <<mode, hostVars, sessionVars, x, decoded, headerVars, error, statusVars, deviceVars>>

Decode ==
    /\ mode \in {"codec", "decode"} /\ pc = "encoded"
    /\ encoded.panic = "none"
    /\ decoded' = cring_rle_decode(encoded.out)
    /\ pc' = "decoded"
    /\ UNCHANGED <<mode, hostVars, sessionVars, x, encoded, headerVars, error, statusVars, deviceVars>>

NextCodec == Encode \/ Decode

SpecCodec == InitCodec /\ [][NextCodec]_vars

(* Decode harness: decode an arbitrary stream *)

InitDecode ==
    /\ mode = "decode" /\ pc = "encoded"
    /\ x = <<>>
    /\ encoded \in {Returned(s) : s \in Streams}
    /\ decoded = NotRun
    /\ CodecIdle

NextDecode == Decode

SpecDecode == InitDecode /\ [][NextDecode]_vars

-----------------------------------------------------------------------------
(* Header harness: pack a header from any two u8 arguments *)

InitHeader ==
    /\ mode = "header" /\ pc = "start"
    /\ len \in 0..255 /\ block_size \in 0..7
    /\ header = NotRun
    /\ x = <<>> /\ encoded = NotRun /\ decoded = NotRun
    /\ error = "Ok" /\ wire = -1 /\ mapped = 0
    /\ DeviceIdle

CalcHeader ==
    /\ mode = "header" /\ pc = "start"
    /\ header' = cring_rle_calc_header(len, block_size)
    /\ pc' = "packed"
    /\ UNCHANGED <<mode, hostVars, sessionVars, codecVars, len, block_size, error, statusVars, deviceVars>>

NextHeader == CalcHeader

SpecHeader == InitHeader /\ [][NextHeader]_vars

-----------------------------------------------------------------------------
(* Status harness: the firmware's Error as a byte, the host's mapping of a byte *)

Error == {"Ok", "UnsupportedCompression", "ParseError"}

\* mutant: the two error variants declared in the other order
ErrorAsU8_reordered(e) ==
    CASE e = "Ok" -> 0
      [] e = "ParseError" -> 1
      [] e = "UnsupportedCompression" -> 2

\* #[repr(u8)] enum Error { Ok, UnsupportedCompression, ParseError }: error as u8
ErrorAsU8(e) ==
    CASE e = "Ok" -> 0
      [] e = "UnsupportedCompression" -> 1
      [] e = "ParseError" -> 2

CRING_EOK == 0
CRING_EALREADY == -1
CRING_EINVAL == -2
CRING_ENOTPRESENT == -3
CRING_EUSB == -4
CRING_EACC_UNKNOWN == -100
CRING_EACC_UNSUP_COMP == -101
CRING_EACC_PARSE == -102

cring_map_from_device_error(e) ==
    CASE e = 0 -> CRING_EOK
      [] e = 1 -> CRING_EACC_UNSUP_COMP
      [] e = 2 -> CRING_EACC_PARSE
      [] OTHER -> CRING_EACC_UNKNOWN

InitStatus ==
    /\ mode = "status" /\ pc = "start"
    /\ error \in Error
    /\ wire = -1 /\ mapped = 0
    /\ x = <<>> /\ encoded = NotRun /\ decoded = NotRun
    /\ len = 0 /\ block_size = 0 /\ header = NotRun
    /\ DeviceIdle

\* firmware: ep_in.write(&[error as u8])
WriteStatus ==
    /\ mode = "status" /\ pc = "start"
    /\ wire' = ErrorAsU8(error)
    /\ pc' = "written"
    /\ UNCHANGED <<mode, hostVars, sessionVars, codecVars, headerVars, error, mapped, deviceVars>>

\* host: the status read delivers a byte this firmware did not produce
ForeignStatus ==
    /\ mode = "status" /\ pc = "start"
    /\ \E b \in 0..255 : wire' = b
    /\ pc' = "foreign"
    /\ UNCHANGED <<mode, hostVars, sessionVars, codecVars, headerVars, error, mapped, deviceVars>>

\* host: err::cring_map_from_device_error(buffer[0])
MapStatus ==
    /\ mode = "status" /\ pc \in {"written", "foreign"}
    /\ mapped' = cring_map_from_device_error(wire)
    /\ pc' = IF pc = "written" THEN "mapped" ELSE "foreign_mapped"
    /\ UNCHANGED <<mode, hostVars, sessionVars, codecVars, headerVars, error, wire, deviceVars>>

NextStatus == WriteStatus \/ ForeignStatus \/ MapStatus

SpecStatus == InitStatus /\ [][NextStatus]_vars

-----------------------------------------------------------------------------
(* Bitmap headers, as tinybmp::RawBmp::from_slice hands them to listen *)

ParseErr == [kind |-> "Err"]

Header(start, data_len, w, h, bits, masks, method) ==
    [kind |-> "Ok", image_data_start |-> start, image_data_len |-> data_len,
     width |-> w, height |-> h, bpp |-> bits, channel_masks |-> masks,
     compression_method |-> method]

RGB555 == ChannelMasks(31744, 992, 31)
RGB565 == ChannelMasks(63488, 2016, 31)
RGB888 == ChannelMasks(16711680, 65280, 255)
\* 10 bits per channel: 0x3FF00000, 0x000FFC00, 0x000003FF
RGB101010 == ChannelMasks(1072693248, 1047552, 1023)

\* bits per pixel with the channel masks a header of that depth can carry
Layouts ==
    {<<1, NoMasks>>, <<4, NoMasks>>, <<8, NoMasks>>, <<16, NoMasks>>, <<24, NoMasks>>,
     <<32, NoMasks>>, <<16, RGB555>>, <<16, RGB565>>, <<32, RGB888>>, <<32, RGB101010>>}

-----------------------------------------------------------------------------
(* Transform harness: the pixel loop on any buffer and header *)

PixelBytes == {0, 165, 255}

TransformHeaders ==
    {Header(start, data_len, 2, 1, l[1], l[2], IF l[2].present THEN "Bitfields" ELSE "Rgb") :
        start \in {0, 1}, data_len \in {0, 4}, l \in Layouts}

TransformIdle ==
    /\ x = <<>> /\ encoded = NotRun /\ decoded = NotRun
    /\ len = 0 /\ block_size = 0 /\ header = NotRun
    /\ error = "Ok" /\ wire = -1 /\ mapped = 0
    /\ encoded_bmp_buffer = <<>> /\ GLITCHY = FALSE /\ decoded_in = <<>>
    /\ reencoded = <<>> /\ reply = <<>> /\ nerr = 0 /\ outbox = <<>> /\ panic_msg = ""
    /\ HostIdle /\ SessionIdle

InitTransform ==
    /\ mode = "transform" /\ pc = "start"
    /\ decoded_bmp_buffer \in SeqsUpTo(PixelBytes, MaxPixelBytes)
    /\ bmp \in {h \in TransformHeaders : h.image_data_start <= Len(decoded_bmp_buffer)}
    /\ TransformIdle

Transform ==
    /\ mode = "transform" /\ pc = "start"
    /\ LET t == InvertPixels(decoded_bmp_buffer, bmp)
       IN  /\ decoded_in' = decoded_bmp_buffer
           /\ IF t.panic = "none"
              THEN /\ decoded_bmp_buffer' = t.out
                   /\ pc' = "transformed"
                   /\ UNCHANGED panic_msg
              ELSE /\ pc' = "Panicked"
                   /\ panic_msg' = t.panic
                   /\ UNCHANGED decoded_bmp_buffer
    /\ UNCHANGED <<mode, hostVars, sessionVars, codecVars, headerVars, error, statusVars, encoded_bmp_buffer,
                   GLITCHY, bmp, reencoded, reply, nerr, outbox>>

NextTransform == Transform

SpecTransform == InitTransform /\ [][NextTransform]_vars

-----------------------------------------------------------------------------
(* The firmware: listen (main.rs 152-315) under usb_app (main.rs 134-141) *)

\* the firmware's codec writes into a heapless Vec of capacity BUFFER_SIZE,
\* cleared first
fw_cring_rle_decode(input) == DecodeLoop(input, <<>>, BUFFER_SIZE)

fw_cring_rle_encode(input) == EncodeLoop(input, <<>>, BUFFER_SIZE)

\* mutant: the compression method is looked at only after the pixel loop
ProcessBmp_checks_method_late(dec, enc, p) ==
    IF p.kind = "Err"
    THEN [panic |-> "none", error |-> "ParseError", dec |-> dec, enc |-> enc]
    ELSE LET t == InvertPixels(dec, p)
         IN  IF t.panic # "none"
             THEN [panic |-> t.panic, error |-> "Ok", dec |-> dec, enc |-> enc]
             ELSE IF p.compression_method \in {"Rle4", "Rle8"}
             THEN [panic |-> "none", error |-> "UnsupportedCompression",
                   dec |-> t.out, enc |-> enc]
             ELSE LET e == fw_cring_rle_encode(t.out)
                  IN  IF e.panic # "none"
                      THEN [panic |-> e.panic, error |-> "Ok", dec |-> t.out, enc |-> enc]
                      ELSE [panic |-> "none", error |-> "Ok", dec |-> t.out, enc |-> e.out]

\* the block labelled 'e: the status, and the two buffers as it leaves them
ProcessBmp(dec, enc, p) ==
    IF p.kind = "Err"
    THEN [panic |-> "none", error |-> "ParseError", dec |-> dec, enc |-> enc]
    ELSE IF p.compression_method \in {"Rle4", "Rle8"}
    THEN [panic |-> "none", error |-> "UnsupportedCompression", dec |-> dec, enc |-> enc]
    ELSE LET t == InvertPixels(dec, p)
         IN  IF t.panic # "none"
             THEN [panic |-> t.panic, error |-> "Ok", dec |-> dec, enc |-> enc]
             ELSE LET e == fw_cring_rle_encode(t.out)
                  IN  IF e.panic # "none"
                      THEN [panic |-> e.panic, error |-> "Ok", dec |-> t.out, enc |-> enc]
                      ELSE [panic |-> "none", error |-> "Ok", dec |-> t.out, enc |-> e.out]

\* encoded_bmp_buffer.chunks(MAX_PACKET_SIZE), chunk k from 0
ChunkOf(buf, k) ==
    SubSeq(buf, k * MAX_PACKET_SIZE + 1, Min((k + 1) * MAX_PACKET_SIZE, Len(buf)))

NumChunks(buf) == (Len(buf) + MAX_PACKET_SIZE - 1) \div MAX_PACKET_SIZE

\* n literal blocks of 63 bytes each, a stream of n full packets
LiteralBlocks(n) ==
    SubSeq([i \in 1..(MAX_PACKET_SIZE * n) |->
               IF (i - 1) % MAX_PACKET_SIZE = 0 THEN 248
               ELSE (37 * ((i - 1) % MAX_PACKET_SIZE) + (i - 1) \div MAX_PACKET_SIZE) % 256],
           1, MAX_PACKET_SIZE * n)

\* 65 zero bytes, and 256 zero bytes, as repeat blocks of at most 64
MsgRun65 == <<253, 0, 1, 0>>
MsgRun256 == <<253, 0, 253, 0, 253, 0, 253, 0>>

\* what cring_acc_send_bmp sends for an image of six zero bytes
MsgZeros6 == cring_rle_encode(<<0, 0, 0, 0, 0, 0>>).out

\* encoded streams the host sends: nothing, uniform runs, an encoded image,
\* literal data of two packets, of exactly the capacity, and of one packet
\* more than the capacity
HostMessages ==
    {<<>>, MsgRun65, MsgRun256, MsgZeros6, LiteralBlocks(2),
     LiteralBlocks(BUFFER_SIZE \div MAX_PACKET_SIZE),
     LiteralBlocks((BUFFER_SIZE \div MAX_PACKET_SIZE) + 1)}

\* the bulk transfer of a message (lib.rs 169) as packets of at most
\* MAX_PACKET_SIZE bytes, then the zero-length terminator (lib.rs 175)
Packets(m) == SubSeq([k \in 1..NumChunks(m) |-> ChunkOf(m, k - 1)], 1, NumChunks(m))
              \o << <<>> >>

\* what the host puts on the wire next: the rest of its message, or a new one
HostQueues == IF outbox = <<>> THEN {Packets(m) : m \in HostMessages} ELSE {outbox}

\* headers the parser hands over in the device runs; image_data_start lies
\* inside the file and an empty file does not parse
DeviceHeaders ==
    {Header(0, 0, 16, 16, 8, NoMasks, "Rgb"),
     Header(1, 2, 1, 1, 16, RGB565, "Bitfields"),
     Header(1, 0, 16, 16, 8, NoMasks, "Rle8")}

\* tinybmp::RawBmp::from_slice(&decoded_bmp_buffer)
ParseOutcomes(buf) ==
    {ParseErr} \cup {h \in DeviceHeaders : buf # <<>> /\ h.image_data_start <= Len(buf)}

InitDevice ==
    /\ mode = "device" /\ pc = "AwaitingLink"
    /\ x = <<>> /\ encoded = NotRun /\ decoded = NotRun
    /\ len = 0 /\ block_size = 0 /\ header = NotRun
    /\ error = "Ok" /\ wire = -1 /\ mapped = 0
    /\ DeviceIdle

\* the two locks are taken and ep_out.wait_enabled() returns
WaitEnabled ==
    /\ mode = "device" /\ pc = "AwaitingLink"
    /\ pc' = "ReceivingImage"
    /\ locks' = [held |-> <<"ENCODED_BMP_BUFFER", "DECODED_BMP_BUFFER">>, carried |-> FALSE]
    /\ UNCHANGED <<received, handed>>
    /\ UNCHANGED <<mode, hostVars, codecVars, headerVars, error, statusVars, deviceVars>>

\* ep_out.read returns a non-empty packet: extend_from_slice, or the panic
ReadChunk ==
    /\ mode = "device" /\ pc = "ReceivingImage"
    /\ \E q \in HostQueues :
          /\ Head(q) # <<>>
          /\ outbox' = Tail(q)
          /\ received' = received \o Head(q)
          /\ IF Len(encoded_bmp_buffer) + Len(Head(q)) > BUFFER_SIZE
             THEN /\ pc' = "Panicked"
                  /\ panic_msg' = "The receive buffer is full"
                  /\ UNCHANGED encoded_bmp_buffer
             ELSE /\ encoded_bmp_buffer' = encoded_bmp_buffer \o Head(q)
                  /\ UNCHANGED <<pc, panic_msg>>
    /\ error' = "Ok" /\ bmp' = NoBmp /\ decoded_in' = <<>>
    /\ reencoded' = <<>> /\ reply' = <<>>
    /\ handed' = <<>>
    /\ UNCHANGED locks
    /\ UNCHANGED <<mode, hostVars, codecVars, headerVars, statusVars, decoded_bmp_buffer,
                   GLITCHY, nerr>>

\* ep_out.read returns a zero-length packet: decode, parse, transform, re-encode
ReadZeroLength ==
    /\ mode = "device" /\ pc = "ReceivingImage"
    /\ \E q \in HostQueues : Head(q) = <<>> /\ outbox' = Tail(q)
    /\ LET d == fw_cring_rle_decode(encoded_bmp_buffer)
       IN  IF d.panic # "none"
           THEN /\ pc' = "Panicked"
                /\ panic_msg' = d.panic
                /\ error' = "Ok" /\ bmp' = NoBmp /\ decoded_in' = <<>>
                /\ reencoded' = <<>>
                /\ UNCHANGED <<encoded_bmp_buffer, decoded_bmp_buffer>>
           ELSE \E p \in ParseOutcomes(d.out) :
                   LET r == ProcessBmp(d.out, encoded_bmp_buffer, p)
                   IN  /\ bmp' = p
                       /\ decoded_in' = d.out
                       /\ decoded_bmp_buffer' = r.dec
                       /\ encoded_bmp_buffer' = r.enc
                       /\ error' = r.error
                       /\ IF r.panic # "none"
                          THEN /\ pc' = "Panicked"
                               /\ panic_msg' = r.panic
                               /\ reencoded' = <<>>
                          ELSE /\ pc' = "SendingStatus"
                               /\ reencoded' = r.enc
                               /\ UNCHANGED panic_msg
    /\ reply' = <<>>
    /\ handed' = encoded_bmp_buffer
    /\ UNCHANGED <<received, locks>>
    /\ UNCHANGED <<mode, hostVars, codecVars, headerVars, statusVars, GLITCHY, nerr>>

\* mutant: the encoded buffer is not cleared
FinishTransfer_keeps_encoded ==
    /\ decoded_bmp_buffer' = <<>>
    /\ UNCHANGED encoded_bmp_buffer
    /\ nerr' = 0
    /\ pc' = "ReceivingImage"
    /\ received' = <<>>
    /\ locks' = [locks EXCEPT !.carried = TRUE]

\* mutant: the decoded buffer is not cleared
FinishTransfer_keeps_decoded ==
    /\ UNCHANGED decoded_bmp_buffer
    /\ encoded_bmp_buffer' = <<>>
    /\ nerr' = 0
    /\ pc' = "ReceivingImage"
    /\ received' = <<>>
    /\ locks' = [locks EXCEPT !.carried = TRUE]

\* mutant: the guards are dropped at the end of the loop body
FinishTransfer_releases ==
    /\ decoded_bmp_buffer' = <<>>
    /\ encoded_bmp_buffer' = <<>>
    /\ nerr' = 0
    /\ pc' = "ReceivingImage"
    /\ received' = <<>>
    /\ locks' = NoLocks

\* decoded_bmp_buffer.clear(); encoded_bmp_buffer.clear(); back to ep_out.read
FinishTransfer ==
    /\ decoded_bmp_buffer' = <<>>
    /\ encoded_bmp_buffer' = <<>>
    /\ nerr' = 0
    /\ pc' = "ReceivingImage"
    /\ received' = <<>>
    /\ locks' = [locks EXCEPT !.carried = TRUE]

\* ep_in.write(&[error as u8]) returns Ok
SendStatus ==
    /\ mode = "device" /\ pc = "SendingStatus"
    /\ reply' = Append(reply, <<ErrorAsU8(error)>>)
    /\ IF error = "Ok"
       THEN /\ GLITCHY' = FALSE
            /\ IF NumChunks(encoded_bmp_buffer) = 0
               THEN FinishTransfer
               ELSE /\ pc' = "SendingImage"
                    /\ UNCHANGED <<encoded_bmp_buffer, decoded_bmp_buffer, nerr, received, locks>>
       ELSE /\ GLITCHY' = TRUE
            /\ FinishTransfer
    /\ UNCHANGED <<mode, hostVars, handed, codecVars, headerVars, error, statusVars, bmp, decoded_in,
                   reencoded, outbox, panic_msg>>

\* ep_in.write(chunk) returns Ok for the next chunk of the encoded buffer
SendChunk ==
    /\ mode = "device" /\ pc = "SendingImage"
    /\ LET k == Len(reply) - 1
       IN  /\ reply' = Append(reply, ChunkOf(encoded_bmp_buffer, k))
           /\ IF k + 1 = NumChunks(encoded_bmp_buffer)
              THEN FinishTransfer
              ELSE UNCHANGED <<pc, encoded_bmp_buffer, decoded_bmp_buffer, nerr, received, locks>>
    /\ UNCHANGED <<mode, hostVars, handed, codecVars, headerVars, error, statusVars, GLITCHY, bmp,
                   decoded_in, reencoded, outbox, panic_msg>>

\* mutant: usb_app does not store the indicator
EndpointError_keeps_indicator ==
    /\ mode = "device" /\ pc \in {"ReceivingImage", "SendingStatus", "SendingImage"}
    /\ nerr < MaxErrors
    /\ nerr' = nerr + 1
    /\ outbox' = <<>>
    /\ UNCHANGED GLITCHY
    /\ pc' = "AwaitingLink"
    /\ error' = "Ok" /\ bmp' = NoBmp /\ decoded_in' = <<>>
    /\ reencoded' = <<>> /\ reply' = <<>>
    /\ received' = <<>> /\ handed' = <<>> /\ locks' = NoLocks
    /\ UNCHANGED <<mode, hostVars, codecVars, headerVars, statusVars, encoded_bmp_buffer,
                   decoded_bmp_buffer, panic_msg>>

\* ep_out.read or ep_in.write returns Err: listen returns it, usb_app sets the
\* indicator and calls listen again
EndpointError ==
    /\ mode = "device" /\ pc \in {"ReceivingImage", "SendingStatus", "SendingImage"}
    /\ nerr < MaxErrors
    /\ nerr' = nerr + 1
    /\ outbox' = <<>>
    /\ GLITCHY' = TRUE
    /\ pc' = "AwaitingLink"
    /\ error' = "Ok" /\ bmp' = NoBmp /\ decoded_in' = <<>>
    /\ reencoded' = <<>> /\ reply' = <<>>
    /\ received' = <<>> /\ handed' = <<>> /\ locks' = NoLocks
    /\ UNCHANGED <<mode, hostVars, codecVars, headerVars, statusVars, encoded_bmp_buffer,
                   decoded_bmp_buffer, panic_msg>>

\* the panic handler resets the chip: the firmware starts again
Reset ==
    /\ mode = "device" /\ pc = "Panicked"
    /\ pc' = "AwaitingLink"
    /\ error' = "Ok"
    /\ encoded_bmp_buffer' = <<>> /\ decoded_bmp_buffer' = <<>>
    /\ GLITCHY' = FALSE /\ bmp' = NoBmp /\ decoded_in' = <<>>
    /\ reencoded' = <<>> /\ reply' = <<>> /\ nerr' = 0 /\ outbox' = <<>> /\ panic_msg' = ""
    /\ received' = <<>> /\ handed' = <<>> /\ locks' = NoLocks
    /\ UNCHANGED <<mode, hostVars, codecVars, headerVars, statusVars>>

NextDevice ==
    \/ WaitEnabled
    \/ ReadChunk
    \/ ReadZeroLength
    \/ SendStatus
    \/ SendChunk
    \/ EndpointError
    \/ Reset

SpecDevice == InitDevice /\ [][NextDevice]_vars

-----------------------------------------------------------------------------
(* The firmware's codec next to the host's: main.rs 423-553, lib.rs 206-337 *)

\* longest short byte string given to both codecs
MaxFwStream == 3

\* heapless Vec::clear(): the vector keeps its capacity and has length 0
VecClear(vec) == SubSeq(vec, 1, 0)

\* mutant: the output vector is not cleared first
fw_cring_rle_encode_appends(input, output) == EncodeLoop(input, output, BUFFER_SIZE)

\* the firmware's cring_rle_encode(input, output): output.clear(), then the
\* same loop as the host's, pushing with Vec::push(..).ok()
fw_cring_rle_encode_into(input, output) == EncodeLoop(input, VecClear(output), BUFFER_SIZE)

\* the firmware's cring_rle_decode(input, output)
fw_cring_rle_decode_into(input, output) == DecodeLoop(input, VecClear(output), BUFFER_SIZE)

\* byte strings given to both codecs, as data to encode and as streams to
\* decode: short strings over the header bytes, the test vectors, the long
\* blocks, the host messages, and data whose encoding is exactly BUFFER_SIZE
\* bytes, one byte more, and a run the encoder fails on
FwInputs ==
    SeqsUpTo(StreamBytes, MaxFwStream) \cup LongStreams \cup TestVectors \cup HostMessages
    \cup {NoRepeat(BUFFER_SIZE - 8), NoRepeat(BUFFER_SIZE - 7),
          MsgRun256 \o <<1, 0>>, Repeat(<<252>>, 256)}

\* what the static output buffers hold when the codec is called: nothing (after
\* clear), a few bytes, or as many bytes as fit
PriorContents ==
    {<<>>, <<1, 2, 3>>, SubSeq(Repeat(<<9>>, BUFFER_SIZE), 1, BUFFER_SIZE)}

InitFwCodec ==
    /\ mode = "fwcodec" /\ pc = "start"
    /\ x \in FwInputs
    /\ encoded = NotRun /\ decoded = NotRun
    /\ len = 0 /\ block_size = 0 /\ header = NotRun
    /\ error = "Ok" /\ wire = -1 /\ mapped = 0
    /\ HostIdle /\ SessionIdle
    /\ \E prior \in PriorContents :
           encoded_bmp_buffer = prior /\ decoded_bmp_buffer = prior
    /\ GLITCHY = FALSE /\ bmp = NoBmp /\ decoded_in = <<>>
    /\ reencoded = <<>> /\ reply = <<>> /\ nerr = 0 /\ outbox = <<>> /\ panic_msg = ""

\* x is encoded by the host's cring_rle_encode and by the firmware's, which
\* writes into encoded_bmp_buffer (main.rs 272)
FwEncode ==
    /\ mode = "fwcodec" /\ pc = "start"
    /\ encoded' = cring_rle_encode(x)
    /\ LET r == fw_cring_rle_encode_into(x, encoded_bmp_buffer)
       IN  /\ encoded_bmp_buffer' = r.out
           /\ panic_msg' = IF r.panic = "none" THEN "" ELSE r.panic
    /\ pc' = "encoded"
    /\ UNCHANGED <<mode, hostVars, sessionVars, x, decoded, headerVars, error, statusVars,
                   decoded_bmp_buffer, GLITCHY, bmp, decoded_in, reencoded, reply, nerr, outbox>>

\* x is decoded by the host's cring_rle_decode and by the firmware's, which
\* writes into decoded_bmp_buffer (main.rs 185)
FwDecode ==
    /\ mode = "fwcodec" /\ pc = "start"
    /\ decoded' = cring_rle_decode(x)
    /\ LET r == fw_cring_rle_decode_into(x, decoded_bmp_buffer)
       IN  /\ decoded_bmp_buffer' = r.out
           /\ panic_msg' = IF r.panic = "none" THEN "" ELSE r.panic
    /\ pc' = "decoded"
    /\ UNCHANGED <<mode, hostVars, sessionVars, x, encoded, headerVars, error, statusVars,
                   encoded_bmp_buffer, GLITCHY, bmp, decoded_in, reencoded, reply, nerr, outbox>>

NextFwCodec == FwEncode \/ FwDecode

SpecFwCodec == InitFwCodec /\ [][NextFwCodec]_vars

-----------------------------------------------------------------------------
(* Host library: the connection behind a handle slot, lib.rs 7-143 *)

\* most connections the slot allocates in one run
MaxAllocs == 4

\* Box::into_raw(Box::new(CringUsbConnection { interface: None })), the n-th allocation
NewConnection(n) == [ptr |-> n, interface |-> "None"]

\* cring_usb_create(usb): null_arg says that usb itself is null, slot is *usb
cring_usb_create(null_arg, slot, n) ==
    IF null_arg THEN [ret |-> CRING_EINVAL, usb |-> slot]
    ELSE IF slot.ptr # 0 THEN [ret |-> CRING_EALREADY, usb |-> slot]
    ELSE [ret |-> CRING_EOK, usb |-> NewConnection(n)]

\* mutant: the slot keeps its pointer after the connection was dropped
cring_usb_free_keeps_pointer(null_arg, slot) ==
    IF null_arg THEN [ret |-> CRING_EINVAL, usb |-> slot, drop |-> <<>>]
    ELSE IF slot.ptr = 0 THEN [ret |-> CRING_EINVAL, usb |-> slot, drop |-> <<>>]
    ELSE [ret |-> CRING_EOK, usb |-> slot, drop |-> <<slot.ptr>>]

\* cring_usb_free(usb): drop names the connection handed to drop(Box::from_raw(..))
cring_usb_free(null_arg, slot) ==
    IF null_arg THEN [ret |-> CRING_EINVAL, usb |-> slot, drop |-> <<>>]
    ELSE IF slot.ptr = 0 THEN [ret |-> CRING_EINVAL, usb |-> slot, drop |-> <<>>]
    ELSE [ret |-> CRING_EOK, usb |-> NullUsb, drop |-> <<slot.ptr>>]

\* what the device search of cring_usb_connect meets: no matching device, a
\* matching device whose open or claim_interface fails, or a claimed interface
Discovery == {"absent", "refused", "claimed"}

\* cring_usb_connect(usb, vid, pid): conn is the connection usb points to
cring_usb_connect(conn, found) ==
    IF conn.ptr = 0 THEN [ret |-> CRING_EINVAL, usb |-> conn]
    ELSE CASE found = "claimed" ->
                [ret |-> CRING_EOK, usb |-> [conn EXCEPT !.interface = "Some"]]
           [] found = "refused" -> [ret |-> CRING_EUSB, usb |-> conn]
           [] found = "absent" -> [ret |-> CRING_ENOTPRESENT, usb |-> conn]

\* outcome of one bulk transfer on the interface: failed, or completed with data
TransferFailed == [ok |-> FALSE, data |-> <<>>]
Transferred(data) == [ok |-> TRUE, data |-> data]

\* cring_usb_bulk_out(usb, ep, data, len)
cring_usb_bulk_out(conn, res) ==
    IF conn.ptr = 0 THEN CRING_EINVAL
    ELSE IF conn.interface = "None" THEN CRING_EINVAL
    ELSE IF res.ok THEN CRING_EOK
    ELSE CRING_EUSB

\* cring_usb_bulk_in(usb, ep, data, len): the return value and the caller's
\* buffer afterwards
cring_usb_bulk_in(conn, buf, n, res) ==
    IF conn.ptr = 0 THEN [ret |-> CRING_EINVAL, data |-> buf]
    ELSE IF conn.interface = "None" THEN [ret |-> CRING_EINVAL, data |-> buf]
    ELSE IF res.ok
         THEN LET min_len == Min(Len(res.data), n)
              IN  [ret |-> min_len, data |-> Take(res.data, min_len) \o Drop(buf, min_len)]
         ELSE [ret |-> CRING_EUSB, data |-> buf]

\* the pointer a caller passes for the connection: the slot's content, or null
ConnArgs == {usb, NullUsb}

\* what a one-byte bulk in can complete with
ProbeResults == {TransferFailed, Transferred(<<>>), Transferred(<<7>>), Transferred(<<7, 8>>)}

Call(op, null_arg, r) == [op |-> op, null_arg |-> null_arg, before |-> usb, ret |-> r]

ConnIdle ==
    /\ x = <<>> /\ encoded = NotRun /\ decoded = NotRun
    /\ len = 0 /\ block_size = 0 /\ header = NotRun
    /\ error = "Ok" /\ wire = -1 /\ mapped = 0
    /\ encoded_bmp_buffer = <<>> /\ decoded_bmp_buffer = <<>>
    /\ GLITCHY = FALSE /\ bmp = NoBmp /\ decoded_in = <<>>
    /\ reencoded = <<>> /\ reply = <<>> /\ nerr = 0 /\ outbox = <<>> /\ panic_msg = ""
    /\ bmp_data = NullBuffer /\ calls = <<>> /\ ret = 0
    /\ SessionIdle

InitConn ==
    /\ mode = "conn" /\ pc = "idle"
    /\ usb = NullUsb /\ dropped = <<>> /\ last = NoCall
    /\ ConnIdle

ConnUnchanged ==
    UNCHANGED <<mode, pc, codecVars, headerVars, error, statusVars, deviceVars,
                bmp_data, calls, ret, sessionVars>>

Create ==
    /\ mode = "conn"
    /\ Len(dropped) < MaxAllocs
    /\ \E null_arg \in BOOLEAN :
           LET r == cring_usb_create(null_arg, usb, Len(dropped) + 1)
           IN  /\ usb' = r.usb
               /\ last' = Call("create", null_arg, r.ret)
    /\ UNCHANGED dropped
    /\ ConnUnchanged

Connect ==
    /\ mode = "conn"
    /\ \E conn \in ConnArgs, found \in Discovery :
           LET r == cring_usb_connect(conn, found)
           IN  /\ usb' = IF conn.ptr = 0 THEN usb ELSE r.usb
               /\ last' = Call("connect", conn.ptr = 0, r.ret)
    /\ UNCHANGED dropped
    /\ ConnUnchanged

Free ==
    /\ mode = "conn"
    /\ \E null_arg \in BOOLEAN :
           LET r == cring_usb_free(null_arg, usb)
           IN  /\ usb' = r.usb
               /\ dropped' = dropped \o r.drop
               /\ last' = Call("free", null_arg, r.ret)
    /\ ConnUnchanged

BulkOut ==
    /\ mode = "conn"
    /\ \E conn \in ConnArgs, res \in {TransferFailed, Transferred(<<>>)} :
           last' = Call("bulk_out", conn.ptr = 0, cring_usb_bulk_out(conn, res))
    /\ UNCHANGED <<usb, dropped>>
    /\ ConnUnchanged

BulkIn ==
    /\ mode = "conn"
    /\ \E conn \in ConnArgs, res \in ProbeResults :
           last' = Call("bulk_in", conn.ptr = 0, cring_usb_bulk_in(conn, <<0>>, 1, res).ret)
    /\ UNCHANGED <<usb, dropped>>
    /\ ConnUnchanged

NextConn == Create \/ Connect \/ Free \/ BulkOut \/ BulkIn

SpecConn == InitConn /\ [][NextConn]_vars

-----------------------------------------------------------------------------
(* Host library: cring_acc_send_bmp, lib.rs 153-204, and the cli around it *)

CRING_ACC_BOUT_EP == 1

CRING_ACC_BIN_EP == 129

\* longest image enumerated exhaustively for cring_acc_send_bmp
MaxImage == 3

\* one call of cring_usb_bulk_out / cring_usb_bulk_in with its return value
TransportCall(op, ep, n, r) == [op |-> op, ep |-> ep, len |-> n, ret |-> r]

\* mutant: a second zero-length transfer follows the terminator
TerminatorCalls_with_probe(r) ==
    <<TransportCall("bulk_out", CRING_ACC_BOUT_EP, 0, r),
      TransportCall("bulk_out", CRING_ACC_BOUT_EP, 0, r)>>

\* the transfers made between the image and the status read
TerminatorCalls(r) == <<TransportCall("bulk_out", CRING_ACC_BOUT_EP, 0, r)>>

\* mutant: a negative result does not end the exchange
Failed_never(res) == FALSE

\* res < err::CRING_EOK
Failed(res) == res < CRING_EOK

\* mutant: the bytes behind the decoded response are zeroed
CopyBack_clears_rest(dst, src) ==
    LET min_len == Min(Len(src), Len(dst))
    IN  Take(src, min_len) \o [i \in 1..(Len(dst) - min_len) |-> 0]

\* bmp_data_slice[..min_len].copy_from_slice(&decoded[..min_len])
CopyBack(dst, src) ==
    LET min_len == Min(Len(src), Len(dst))
    IN  Take(src, min_len) \o Drop(dst, min_len)

\* the images a caller passes: every short one, the empty one, and one whose
\* encoding stops the encoder
HostImages == SeqsUpTo({0, 1}, MaxImage) \cup {Repeat(<<0>>, 256)}

\* the connection a caller passes: null, created, or created and bound
HostConnections == {NullUsb, NewConnection(1), [NewConnection(1) EXCEPT !.interface = "Some"]}

OutResults == {TransferFailed, Transferred(<<>>)}

\* what the one-byte status read completes with
StatusResults ==
    {TransferFailed} \cup {Transferred(s) : s \in {<<>>, <<0>>, <<1>>, <<2>>, <<3>>}}

\* what the response read completes with: streams that decode to fewer, as
\* many and more bytes than the image, one cut short, one longer than asked for
ResponseStreams ==
    {<<>>, <<0, 5>>, <<4, 7, 8>>, <<9, 6>>, <<4, 7>>, <<0, 5, 0, 6, 0, 7>>}

ImageResults == {TransferFailed} \cup {Transferred(s) : s \in ResponseStreams}

InitHost ==
    /\ mode = "host" /\ pc = "start"
    /\ usb \in HostConnections /\ dropped = <<>> /\ last = NoCall
    /\ bmp_data \in {NullBuffer} \cup {Buffer(b) : b \in HostImages}
    /\ x = bmp_data.bytes
    /\ calls = <<>> /\ ret = 0
    /\ encoded = NotRun /\ decoded = NotRun
    /\ len = 0 /\ block_size = 0 /\ header = NotRun
    /\ error = "Ok" /\ wire = -1 /\ mapped = 0
    /\ encoded_bmp_buffer = <<>> /\ decoded_bmp_buffer = <<>>
    /\ GLITCHY = FALSE /\ bmp = NoBmp /\ decoded_in = <<>>
    /\ reencoded = <<>> /\ reply = <<>> /\ nerr = 0 /\ outbox = <<>> /\ panic_msg = ""
    /\ SessionIdle

HostUnchanged ==
    UNCHANGED <<mode, x, headerVars, error, deviceVars, usb, dropped, last, sessionVars>>

\* lib.rs 158-172: the argument checks, the encoder, the transfer of the image
SendImage ==
    /\ mode = "host" /\ pc = "start"
    /\ IF bmp_data.null \/ Len(bmp_data.bytes) = 0
       THEN /\ ret' = CRING_EINVAL
            /\ pc' = "returned"
            /\ UNCHANGED <<encoded, calls>>
       ELSE LET e == cring_rle_encode(bmp_data.bytes)
            IN  IF e.panic # "none"
                THEN /\ encoded' = e
                     /\ pc' = "aborted"
                     /\ UNCHANGED <<calls, ret>>
                ELSE \E res \in OutResults :
                         LET r == cring_usb_bulk_out(usb, res)
                         IN  /\ encoded' = e
                             /\ calls' = <<TransportCall("bulk_out", CRING_ACC_BOUT_EP,
                                                         Len(e.out), r)>>
                             /\ IF Failed(r)
                                THEN ret' = r /\ pc' = "returned"
                                ELSE pc' = "image_sent" /\ UNCHANGED ret
    /\ UNCHANGED <<decoded, statusVars, bmp_data>>
    /\ HostUnchanged

\* lib.rs 174-178: the zero-length transfer
SendTerminator ==
    /\ mode = "host" /\ pc = "image_sent"
    /\ \E res \in OutResults :
           LET r == cring_usb_bulk_out(usb, res)
           IN  /\ calls' = calls \o TerminatorCalls(r)
               /\ IF Failed(r)
                  THEN ret' = r /\ pc' = "returned"
                  ELSE pc' = "terminator_sent" /\ UNCHANGED ret
    /\ UNCHANGED <<encoded, decoded, statusVars, bmp_data>>
    /\ HostUnchanged

\* lib.rs 180-187: the status byte is read into buffer[0], which starts as 0
ReadStatus ==
    /\ mode = "host" /\ pc = "terminator_sent"
    /\ \E res \in StatusResults :
           LET b == cring_usb_bulk_in(usb, <<0>>, 1, res)
           IN  /\ calls' = Append(calls, TransportCall("bulk_in", CRING_ACC_BIN_EP, 1, b.ret))
               /\ IF Failed(b.ret)
                  THEN /\ ret' = b.ret /\ pc' = "returned"
                       /\ UNCHANGED statusVars
                  ELSE /\ wire' = b.data[1]
                       /\ mapped' = cring_map_from_device_error(b.data[1])
                       /\ IF cring_map_from_device_error(b.data[1]) # CRING_EOK
                          THEN ret' = cring_map_from_device_error(b.data[1]) /\ pc' = "returned"
                          ELSE pc' = "status_read" /\ UNCHANGED ret
    /\ UNCHANGED <<encoded, decoded, bmp_data>>
    /\ HostUnchanged

\* lib.rs 189-203: the response is read over the encoded request, cut to the
\* bytes received, decoded and copied into the caller's buffer
ReadImage ==
    /\ mode = "host" /\ pc = "status_read"
    /\ \E res \in ImageResults :
           LET b == cring_usb_bulk_in(usb, encoded.out, Len(encoded.out), res)
           IN  /\ calls' = Append(calls, TransportCall("bulk_in", CRING_ACC_BIN_EP,
                                                       Len(encoded.out), b.ret))
               /\ IF Failed(b.ret)
                  THEN /\ ret' = b.ret /\ pc' = "returned"
                       /\ UNCHANGED <<encoded, decoded, bmp_data>>
                  ELSE LET truncated == Take(b.data, b.ret)
                           d == cring_rle_decode(truncated)
                       IN  /\ encoded' = Returned(truncated)
                           /\ decoded' = d
                           /\ IF d.panic # "none"
                              THEN pc' = "aborted" /\ UNCHANGED <<ret, bmp_data>>
                              ELSE /\ bmp_data' = Buffer(CopyBack(bmp_data.bytes, d.out))
                                   /\ ret' = CRING_EOK
                                   /\ pc' = "returned"
    /\ UNCHANGED statusVars
    /\ HostUnchanged

\* cli main.rs 46-54: wrap(..)? lets the output file be written only for a
\* return value >= 0
WriteOutput ==
    /\ mode = "host" /\ pc = "returned"
    /\ ret >= 0
    /\ pc' = "written"
    /\ UNCHANGED <<encoded, decoded, statusVars, bmp_data, calls, ret>>
    /\ HostUnchanged

NextHost == SendImage \/ SendTerminator \/ ReadStatus \/ ReadImage \/ WriteOutput

SpecHost == InitHost /\ [][NextHost]_vars

-----------------------------------------------------------------------------
(* Claims about the codec *)

\* C1: for every byte sequence x, cring_rle_decode(cring_rle_encode(x)) returns
\* exactly x.
C1_RoundTrip == pc = "decoded" => decoded = Returned(x)

\* C1, the case that fails: a repeat run of more than 64 units has been encoded
\* and decoded.
C1_LongRunDecoded ==
    /\ mode = "codec" /\ pc = "decoded"
    /\ x = Repeat(<<0>>, 65)
    /\ decoded.out # x

\* C2: cring_rle_encode returns for every input; no assertion and no division
\* fails inside it.
C2_EncodeTotal == (mode = "codec" /\ pc = "encoded") => encoded.panic = "none"

\* payload bytes the header h announces: count for a literal block, unit_size
\* for a repeat block
Need(h) == IF h % 4 = 0 THEN (h \div 4) + 1 ELSE h % 4

\* some block header of the stream announces more payload than the stream holds
RECURSIVE Overruns(_)
Overruns(s) ==
    /\ s # <<>>
    /\ \/ Len(s) - 1 < Need(s[1])
       \/ Overruns(Drop(s, Need(s[1]) + 1))

\* C3: cring_rle_decode fails, returning no bytes, exactly on the streams in
\* which some block header announces more payload than remains; on every other
\* stream it returns normally.
C3_DecodeFailsIffOverrun ==
    (mode = "decode" /\ pc = "decoded") =>
        /\ (decoded.panic # "none") <=> Overruns(encoded.out)
        /\ decoded.panic # "none" => decoded.out = <<>>
        /\ decoded.panic \in {"none", "range end index out of range for slice"}

\* C3 witness: the first block is whole, a later header overruns, the call failed.
C3_Witness ==
    /\ mode = "decode" /\ pc = "decoded"
    /\ Len(encoded.out) = 3 /\ encoded.out[1] = 1 /\ encoded.out[3] = 4
    /\ decoded.panic # "none"

\* C4: for len in [1,64] and unit in [0,3] the header packs and unpacks to the
\* same len and unit.
C4_HeaderPacking ==
    (mode = "header" /\ pc = "packed" /\ len \in 1..64 /\ block_size \in 0..3) =>
        /\ header.panic = "none"
        /\ cring_rle_get_header_block_size(header.out) = block_size
        /\ cring_rle_get_header_len(header.out) = len

\* C4 witness: the largest valid len and unit have been packed.
C4_Witness ==
    /\ mode = "header" /\ pc = "packed"
    /\ len = 64 /\ block_size = 3 /\ header = Returned(255)

\* the status the host is meant to report for a firmware Error
HostCodeOf(e) ==
    CASE e = "Ok" -> CRING_EOK
      [] e = "UnsupportedCompression" -> CRING_EACC_UNSUP_COMP
      [] e = "ParseError" -> CRING_EACC_PARSE

\* C6: bytes 0, 1, 2 map to Ok, UnsupportedCompression, ParseError and every
\* other byte to Unknown; the firmware writes 0, 1, 2 for its three statuses, so
\* a status it produced is mapped to the same status by the host.
C6_StatusMapping ==
    /\ pc = "written" =>
          wire = (CASE error = "Ok" -> 0
                    [] error = "UnsupportedCompression" -> 1
                    [] error = "ParseError" -> 2)
    /\ pc = "mapped" => mapped = HostCodeOf(error) /\ mapped # CRING_EACC_UNKNOWN
    /\ pc = "foreign_mapped" =>
          /\ wire = 0 => mapped = CRING_EOK
          /\ wire = 1 => mapped = CRING_EACC_UNSUP_COMP
          /\ wire = 2 => mapped = CRING_EACC_PARSE
          /\ wire \in 3..255 => mapped = CRING_EACC_UNKNOWN

\* C6 witness: the firmware reported ParseError and the host mapped its byte.
C6_Witness ==
    /\ mode = "status" /\ pc = "mapped"
    /\ error = "ParseError" /\ wire = 2 /\ mapped = CRING_EACC_PARSE

\* the stream is a sequence of whole blocks: a header, then count bytes
\* (literal) or unit_size bytes (repeat)
RECURSIVE WellFramed(_)
WellFramed(s) ==
    \/ s = <<>>
    \/ /\ Len(s) - 1 >= Need(s[1])
       /\ WellFramed(Drop(s, Need(s[1]) + 1))

-----------------------------------------------------------------------------
(* Claims about the device *)

\* the value of the w bits of buf from bit lo (from 0), least significant first
RECURSIVE FieldValue(_, _, _)
FieldValue(buf, lo, w) ==
    IF w = 0 THEN 0 ELSE BitAt(buf, lo) + 2 * FieldValue(buf, lo + 1, w - 1)

\* the channels the masks of h describe
ChannelsOf(h) ==
    IF h.channel_masks.present
    THEN {ChannelRange(h.channel_masks.red), ChannelRange(h.channel_masks.green),
          ChannelRange(h.channel_masks.blue)}
    ELSE {}

\* new has the length of old, and every whole pixel of the pixel-data region of
\* old is inverted in new: channel by channel under masks, bit by bit without
PixelsInverted(old, h, new) ==
    LET n == ImageDataLen(old, h)
        npix == (8 * n) \div h.bpp
        first(k) == 8 * h.image_data_start + k * h.bpp
    IN  /\ Len(new) = Len(old)
        /\ \A k \in 0..(npix - 1) :
              IF h.channel_masks.present
              THEN /\ \A c \in ChannelsOf(h) :
                         /\ c.start < c.end /\ c.end <= h.bpp
                         /\ FieldValue(new, first(k) + c.start, c.end - c.start)
                               = (Pow2(c.end - c.start) - 1)
                                 - FieldValue(old, first(k) + c.start, c.end - c.start)
                   /\ \A b \in 0..(h.bpp - 1) :
                         (\A c \in ChannelsOf(h) : b < c.start \/ b >= c.end)
                            => BitAt(new, first(k) + b) = BitAt(old, first(k) + b)
              ELSE \A b \in 0..(h.bpp - 1) :
                      BitAt(new, first(k) + b) = 1 - BitAt(old, first(k) + b)

\* every byte outside the pixel-data region is the same in old and new
OutsideUnchanged(old, h, new) ==
    /\ Len(new) = Len(old)
    /\ \A j \in 1..Len(old) :
          (j <= h.image_data_start \/ j > h.image_data_start + ImageDataLen(old, h))
             => new[j] = old[j]

RECURSIVE Flatten(_)
Flatten(packets) == IF packets = <<>> THEN <<>> ELSE Head(packets) \o Flatten(Tail(packets))

\* a reply to the current message is complete and the device reads again
Replied == mode = "device" /\ pc = "ReceivingImage" /\ reply # <<>>

UsesRle(h) == h.kind = "Ok" /\ h.compression_method \in {"Rle4", "Rle8"}

\* C5: each time a zero-length chunk ends a message and no endpoint error
\* occurs, the device writes exactly one status byte and then, if and only if
\* the status is Ok, the re-encoded buffer in order in chunks of at most 64
\* bytes whose concatenation is that buffer; after a status other than Ok
\* nothing more is written. The only panic is the one of a full receive buffer.
C5_Reply ==
    mode = "device" =>
        /\ pc = "Panicked" => panic_msg = "The receive buffer is full"
        /\ pc = "SendingStatus" => reply = <<>>
        /\ pc = "SendingImage" =>
              /\ error = "Ok" /\ reply[1] = <<ErrorAsU8("Ok")>>
              /\ Flatten(Tail(reply))
                    = Take(reencoded, MAX_PACKET_SIZE * (Len(reply) - 1))
        /\ Replied =>
              /\ reply[1] = <<ErrorAsU8(error)>>
              /\ \A k \in 2..Len(reply) : Len(reply[k]) \in 1..MAX_PACKET_SIZE
              /\ IF error = "Ok" THEN Flatten(Tail(reply)) = reencoded
                 ELSE Len(reply) = 1

\* C7: whenever the decoded message is a well-formed bitmap without RLE4/RLE8
\* compression, the reply is status Ok followed by a stream that
\* cring_rle_decode turns into the decoded input with every pixel channel of the
\* pixel-data region inverted and every byte outside it unchanged.
C7_EndToEnd ==
    (Replied /\ bmp.kind = "Ok" /\ ~UsesRle(bmp)) =>
        /\ reply[1] = <<ErrorAsU8("Ok")>>
        /\ LET image == cring_rle_decode(Flatten(Tail(reply)))
           IN  /\ image.panic = "none"
               /\ PixelsInverted(decoded_in, bmp, image.out)
               /\ OutsideUnchanged(decoded_in, bmp, image.out)

C9_PixelTransform ==
    (mode = "transform" /\ pc # "start") =>
        /\ pc = "transformed"
        /\ PixelsInverted(decoded_in, bmp, decoded_bmp_buffer)

-----------------------------------------------------------------------------
(* Claims about the blocks the encoder chooses *)

\* C11, as the code has it: encode([0,0,2,3,4,5,6]) is [0x05,0,0x10,2,3,4,5,6]
\* (a literal block of count 5 has header 4 << 2) and encode([0,0,2,3,4,2,3,4])
\* is [0x05,0,0x07,2,3,4] (unit_size 3, count 2 has header 1 << 2 | 3).
C11_CodeVectors ==
    (mode = "codec" /\ pc \in {"encoded", "decoded"}) =>
        /\ x = <<0, 0, 2, 3, 4, 5, 6>> => encoded = Returned(<<5, 0, 16, 2, 3, 4, 5, 6>>)
        /\ x = <<0, 0, 2, 3, 4, 2, 3, 4>> => encoded = Returned(<<5, 0, 7, 2, 3, 4>>)

\* C11 as stated: encode([0,0,2,3,4,5,6]) is [0x05,0,0x18,2,3,4,5,6] and
\* encode([0,0,2,3,4,2,3,4]) is [0x05,0,0x0D,2,3,4].
C11_SpecVectors ==
    (mode = "codec" /\ pc \in {"encoded", "decoded"}) =>
        /\ x = <<0, 0, 2, 3, 4, 5, 6>> => encoded = Returned(<<5, 0, 24, 2, 3, 4, 5, 6>>)
        /\ x = <<0, 0, 2, 3, 4, 2, 3, 4>> => encoded = Returned(<<5, 0, 13, 2, 3, 4>>)

\* C11 witness: the first of the two vectors has been encoded, its literal
\* block carrying the header 0x10.
C11_Witness ==
    /\ mode = "codec" /\ pc = "encoded"
    /\ x = <<0, 0, 2, 3, 4, 5, 6>>
    /\ encoded.panic = "none" /\ encoded.out[3] = 16

\* the headers of the blocks of a stream, in order
RECURSIVE BlockHeaders(_)
BlockHeaders(s) ==
    IF s = <<>> THEN <<>> ELSE <<s[1]>> \o BlockHeaders(Drop(s, Need(s[1]) + 1))

\* C12: in the output of cring_rle_encode every literal block (unit_size 0) has
\* a count of at most 32, also when more than 32 non-repeating bytes follow.
C12_LiteralCap ==
    (mode = "codec" /\ pc \in {"encoded", "decoded"} /\ encoded.panic = "none") =>
        LET hs == BlockHeaders(encoded.out)
        IN  \A i \in 1..Len(hs) :
                cring_rle_get_header_block_size(hs[i]) = 0
                    => cring_rle_get_header_len(hs[i]) <= 32

\* C12 witness: 65 non-repeating bytes have been encoded as literal blocks of
\* 32, 32 and 1 bytes.
C12_Witness ==
    /\ mode = "codec" /\ pc = "encoded"
    /\ x = NoRepeat(65)
    /\ encoded.panic = "none"
    /\ BlockHeaders(encoded.out) = <<31 * 4, 31 * 4, 0>>

\* the iterations of the encoder's while loop on input that end with a block:
\* what was left of the input, the block pushed, the bytes consumed
RECURSIVE EncodeSteps(_)
EncodeSteps(input) ==
    IF input = <<>> THEN <<>>
    ELSE LET b == EncodeBlock(input)
         IN  IF b.panic # "none" THEN <<>>
             ELSE <<[rest |-> input, block |-> b.block, consumed |-> b.consumed]>>
                  \o EncodeSteps(Drop(input, b.consumed))

\* 1000 * (header and unit bytes) / (bytes consumed), without the u8 casts
SavingsFraction(output_size, input_size) == (1000 * output_size) \div input_size

\* the candidates at a position as <<output bytes, input bytes>>: the literal of
\* min(remaining, 32) bytes and the repeats of unit_size 1..3 that fit
CandidatesAt(rest) ==
    {<<Min(Len(rest), 32) + 1, Min(Len(rest), 32)>>}
    \cup {<<bs + 1, bs * CountLeadingChunks(rest, bs)>> : bs \in {b \in 1..3 : Len(rest) >= b}}

\* C13: at every position the chosen block's savings fraction
\* 1000 * (header and unit size) / (bytes consumed) is not greater than that
\* of any of the four candidates, also where a repeat candidate would consume
\* more than 255 bytes.
C13_GreedyBound ==
    (mode = "codec" /\ pc \in {"encoded", "decoded"}) =>
        LET steps == EncodeSteps(x)
        IN  \A i \in 1..Len(steps) :
                \A c \in CandidatesAt(steps[i].rest) :
                    SavingsFraction(Len(steps[i].block), steps[i].consumed)
                        <= SavingsFraction(c[1], c[2])

\* the bytes one unit of a block stands for: a literal counts single bytes
UnitBytes(h) ==
    IF cring_rle_get_header_block_size(h) = 0 THEN 1
    ELSE cring_rle_get_header_block_size(h)

\* C19: the count field of every emitted header (bits [7:2] plus one) is the
\* number of units the encoder consumes for that block, and it lies in 1..64;
\* the encoder never advances by more bytes than the block expands to.
C19_CountMatchesConsumed ==
    (mode = "codec" /\ pc \in {"encoded", "decoded"}) =>
        LET steps == EncodeSteps(x)
        IN  \A i \in 1..Len(steps) :
                LET h == steps[i].block[1]
                IN  /\ steps[i].consumed = cring_rle_get_header_len(h) * UnitBytes(h)
                    /\ cring_rle_get_header_len(h) \in 1..64
                    /\ steps[i].consumed \in 1..(64 * UnitBytes(h))

\* C20: the chosen candidate is the first one, in the order literal, unit_size
\* 1, 2, 3, that holds the lowest score; a candidate whose unit does not fit
\* in the remaining input is never chosen; a one-byte input [b] becomes the
\* literal block [0x00, b].
C20_FirstMinimum ==
    (mode = "codec" /\ pc \in {"encoded", "decoded"}) =>
        /\ LET steps == EncodeSteps(x)
           IN  \A i \in 1..Len(steps) :
                   LET scores == PossibleBlockSavings(steps[i].rest)
                       chosen == cring_rle_get_header_block_size(steps[i].block[1])
                   IN  /\ \A j \in 0..3 : scores[chosen] <= scores[j]
                       /\ \A j \in 0..3 : j < chosen => scores[j] > scores[chosen]
                       /\ chosen <= Len(steps[i].rest)
        /\ Len(x) = 1 => encoded = Returned(<<0, x[1]>>)

\* a one-byte input, where the literal and the unit_size-1 candidate tie
C20_Witness ==
    /\ mode = "codec" /\ pc = "encoded"
    /\ x = <<1>>
    /\ PossibleBlockSavings(x)[0] = PossibleBlockSavings(x)[1]
    /\ encoded = Returned(<<0, 1>>)

-----------------------------------------------------------------------------
(* Claims about the host library's connection handle *)

\* C17: a transfer on a created but unbound connection returns an error;
\* cring_usb_connect on a bound connection returns the already-connected
\* error and cring_usb_free on an already freed handle the already-freed
\* error, both different from the invalid-handle code of a null handle.
C17_DistinctErrors ==
    mode = "conn" =>
        /\ (/\ last.op \in {"bulk_out", "bulk_in"}
            /\ ~last.null_arg /\ last.before.interface = "None")
               => last.ret < CRING_EOK
        /\ (last.op = "connect" /\ ~last.null_arg /\ last.before.interface = "Some")
               => (last.ret = CRING_EALREADY /\ last.ret # CRING_EINVAL)
        /\ (last.op = "free" /\ ~last.null_arg /\ last.before.ptr = 0 /\ dropped # <<>>)
               => (last.ret = CRING_EALREADY /\ last.ret # CRING_EINVAL)

\* what the calls on one handle slot do, apart from a failed connect
LifecycleCore ==
    /\ (last.op = "create" /\ ~last.null_arg) =>
           /\ last.ret = CRING_EOK <=> last.before.ptr = 0
           /\ last.ret = CRING_EOK => (usb.ptr # 0 /\ usb.interface = "None")
           /\ last.ret # CRING_EOK => (last.ret = CRING_EALREADY /\ usb = last.before)
    /\ (last.op = "free" /\ ~last.null_arg) =>
           /\ last.ret = CRING_EOK <=> last.before.ptr # 0
           /\ last.ret = CRING_EOK => (usb = NullUsb /\ dropped # <<>>
                                       /\ dropped[Len(dropped)] = last.before.ptr)
           /\ last.ret # CRING_EOK => usb = last.before
    /\ \A i, j \in 1..Len(dropped) : dropped[i] = dropped[j] => i = j
    /\ \A i \in 1..Len(dropped) : dropped[i] # usb.ptr

\* C18 as the code has it: create succeeds exactly on an empty slot and yields
\* an unbound connection, else returns CRING_EALREADY and changes nothing; a
\* failed connect leaves the connection as it was, bound or unbound; free
\* succeeds exactly when the slot holds a connection and empties the slot; no
\* connection is released twice.
C18_Lifecycle ==
    mode = "conn" =>
        /\ LifecycleCore
        /\ (last.op = "connect" /\ last.ret # CRING_EOK) => usb = last.before
        /\ (last.op = "connect" /\ last.ret = CRING_EOK) =>
               (usb.ptr = last.before.ptr /\ usb.interface = "Some")

\* C18 as stated: a failed connect leaves the connection unbound.
C18_FailedConnectUnbound ==
    mode = "conn" =>
        /\ LifecycleCore
        /\ (last.op = "connect" /\ last.ret # CRING_EOK) => usb.interface = "None"

\* a slot created again after a free, and a failed connect on a bound connection
C18_Witness ==
    /\ mode = "conn"
    /\ last.op = "connect" /\ last.ret = CRING_EUSB
    /\ last.before.interface = "Some" /\ usb = last.before
    /\ dropped = <<1>> /\ usb.ptr = 2

-----------------------------------------------------------------------------
(* Claims about cring_acc_send_bmp *)

\* a transport call without its result
Transfer(c) == <<c.op, c.ep, c.len>>

\* C14 as the code has it: cring_acc_send_bmp transmits the encoded image,
\* then exactly one zero-length transfer, then reads exactly one status byte,
\* then reads the response into the encoded buffer, with nothing in between.
C14_OneTerminator ==
    mode = "host" =>
        LET n == Len(cring_rle_encode(x).out)
            expected == << <<"bulk_out", 1, n>>, <<"bulk_out", 1, 0>>,
                           <<"bulk_in", 129, 1>>, <<"bulk_in", 129, n>> >>
        IN  /\ Len(calls) <= 4
            /\ \A i \in 1..Len(calls) : Transfer(calls[i]) = expected[i]

\* C14 as stated: the encoded image, a zero-length terminator and a
\* zero-length "ready" probe precede the read of the status byte.
C14_TwoZeroLength ==
    mode = "host" =>
        \A i \in 1..Len(calls) :
            (calls[i].op = "bulk_in" /\ \A j \in 1..(i - 1) : calls[j].op = "bulk_out") =>
                /\ i = 4 /\ calls[i].len = 1
                /\ Transfer(calls[1]) = <<"bulk_out", 1, Len(cring_rle_encode(x).out)>>
                /\ Transfer(calls[2]) = <<"bulk_out", 1, 0>>
                /\ Transfer(calls[3]) = <<"bulk_out", 1, 0>>

\* the status byte has been read and the exchange goes on
C14_Witness ==
    /\ mode = "host" /\ pc = "status_read"
    /\ Len(calls) = 3 /\ calls[3].ret = 1
    /\ x = <<0, 1, 0>>

\* C15: at the first transport call with a negative result cring_acc_send_bmp
\* returns that code, at a status byte other than Ok it returns the mapped
\* device error, and in both cases no further transport call is made.
C15_FailFast ==
    mode = "host" =>
        /\ \A i \in 1..Len(calls) :
               calls[i].ret < 0 =>
                   (i = Len(calls) /\ pc = "returned" /\ ret = calls[i].ret)
        /\ (Len(calls) >= 3 /\ calls[3].ret >= 0 /\ wire # 0) =>
               /\ Len(calls) = 3 /\ pc = "returned"
               /\ ret = (CASE wire = 1 -> CRING_EACC_UNSUP_COMP
                           [] wire = 2 -> CRING_EACC_PARSE
                           [] OTHER -> CRING_EACC_UNKNOWN)

\* the zero-length transfer fails after the image went out
C15_Witness ==
    /\ mode = "host" /\ pc = "returned"
    /\ Len(calls) = 2 /\ calls[1].ret = CRING_EOK /\ calls[2].ret = CRING_EUSB
    /\ ret = CRING_EUSB

\* C16: the caller's buffer is changed only by an exchange that returns Ok;
\* then exactly its first min(decoded length, bmp_len) bytes hold the decoded
\* response and the rest is as before. The cli writes the output file only
\* after that.
C16_BufferFrame ==
    mode = "host" =>
        /\ bmp_data.null => (bmp_data.bytes = <<>> /\ x = <<>>)
        /\ Len(bmp_data.bytes) = Len(x)
        /\ ~(pc \in {"returned", "written"} /\ ret = CRING_EOK) => bmp_data.bytes = x
        /\ (pc \in {"returned", "written"} /\ ret = CRING_EOK) =>
               LET min_len == Min(Len(decoded.out), Len(x))
               IN  /\ decoded.panic = "none"
                   /\ \A i \in 1..Len(x) :
                          bmp_data.bytes[i] = IF i <= min_len THEN decoded.out[i] ELSE x[i]
        /\ pc = "written" => ret = CRING_EOK

\* a response that decodes to one byte for an image of three
C16_Witness ==
    /\ mode = "host" /\ pc = "written" /\ ret = CRING_EOK
    /\ x = <<1, 1, 1>> /\ decoded = Returned(<<5>>)
    /\ bmp_data = Buffer(<<5, 1, 1>>)

-----------------------------------------------------------------------------
(* Claims about the firmware's receive loop and its buffers *)

\* the message was processed, or its processing stopped the firmware
Processed ==
    \/ pc \in {"SendingStatus", "SendingImage"}
    \/ pc = "Panicked" /\ panic_msg # "The receive buffer is full"

\* C21: while no transfer was aborted since the buffers were last cleared, the
\* encoded buffer holds the non-empty chunks of the current message in the
\* order of their arrival, the zero-length chunk adds nothing, and the buffer
\* given to the decoder is the concatenation of exactly these chunks.
C21_BufferIsChunks ==
    (mode = "device" /\ nerr = 0) =>
        /\ pc = "ReceivingImage" => encoded_bmp_buffer = received
        /\ Processed => handed = received

\* the second message of a link session, two full packets, reaches the decoder
C21_Witness ==
    /\ mode = "device" /\ pc = "SendingStatus" /\ nerr = 0
    /\ locks.carried
    /\ received = LiteralBlocks(2) /\ handed = received

\* C22: a chunk that would make the encoded buffer exceed BUFFER_SIZE is not
\* appended, no status byte is sent and the firmware takes the fatal path; a
\* message of at most BUFFER_SIZE bytes never triggers this path.
C22_OverflowFatal ==
    mode = "device" =>
        /\ Len(encoded_bmp_buffer) <= BUFFER_SIZE
        /\ Len(received) > BUFFER_SIZE =>
               (pc = "Panicked" /\ panic_msg = "The receive buffer is full")
        /\ (pc = "Panicked" /\ panic_msg = "The receive buffer is full") =>
               /\ reply = <<>>
               /\ Len(received) > BUFFER_SIZE

\* C23: when the expansion of the received stream, or the stream re-encoded
\* from the transformed image, is longer than BUFFER_SIZE, the firmware takes
\* the fatal path: it never goes on to reply from a buffer that was cut.
C23_OverrunIsFatal ==
    (mode = "device" /\ pc \in {"SendingStatus", "SendingImage"}) =>
        /\ Len(cring_rle_decode(handed).out) <= BUFFER_SIZE
        /\ error = "Ok" => Len(cring_rle_encode(decoded_bmp_buffer).out) <= BUFFER_SIZE

\* C24: when a transfer cycle has run to its end (the status byte and, for Ok,
\* every chunk of the reply were written), whatever the status was, both
\* working buffers are empty while the device waits for the first chunk of the
\* next message.
C24_ClearedAfterCycle ==
    Replied =>
        /\ error \in {"Ok", "UnsupportedCompression", "ParseError"}
        /\ encoded_bmp_buffer = <<>>
        /\ decoded_bmp_buffer = <<>>
        /\ received = <<>>

C24_Witness ==
    /\ Replied
    /\ error = "UnsupportedCompression"
    /\ handed # <<>>
    /\ encoded_bmp_buffer = <<>> /\ decoded_bmp_buffer = <<>>

\* the device waits for the first chunk of the next message
Waiting ==
    /\ mode = "device"
    /\ \/ pc = "AwaitingLink"
       \/ pc = "ReceivingImage" /\ received = <<>>

\* C25: while the device waits for the next message, the fault indicator is
\* true exactly when the most recent transfer ended in an endpoint error
\* (listen returned Err since the last reply) or in a reply whose status was
\* not Ok; after a reply with status Ok, and after boot, it is false.
C25_IndicatorTracksLast ==
    Waiting =>
        (GLITCHY <=> IF reply # <<>> THEN error # "Ok" ELSE nerr > 0)

C25_Witness ==
    /\ Waiting /\ pc = "ReceivingImage"
    /\ reply = <<>> /\ nerr > 0 /\ encoded_bmp_buffer # <<>>
    /\ GLITCHY

\* the guards listen takes at its entry, in the order it takes them
BothLocks == <<"ENCODED_BMP_BUFFER", "DECODED_BMP_BUFFER">>

C27_FreshAfterAbort ==
    mode = "device" =>
        /\ Waiting => encoded_bmp_buffer = <<>>
        /\ Processed => handed = received

\* C29: in an exchange without transport errors that ends with status Ok, the
\* stream the device is about to send is no longer than the request the host
\* sent (the capacity of the host's response read), and the read ends: the
\* stream fills that capacity or its last chunk is shorter than MAX_PACKET_SIZE.
C29_ResponseFitsRead ==
    (mode = "device" /\ pc = "SendingStatus" /\ error = "Ok" /\ nerr = 0) =>
        /\ Len(encoded_bmp_buffer) <= Len(received)
        /\ \/ Len(encoded_bmp_buffer) = Len(received)
           \/ Len(encoded_bmp_buffer) % MAX_PACKET_SIZE # 0


-----------------------------------------------------------------------------
(* Claims about the firmware's codec against the host's *)

====
